---- MODULE Spec2Model ----
(***************************************************************************)
(* Model of renderDiffRequest, the helper that renders the argument list   *)
(* of a "git diff" request from two revision endpoints.  The repository    *)
(* holds two textual copies of the function: one in                        *)
(* render-diff-request/mirdin-270ff851/tests.ts and one in the second test *)
(* suite (unnamed/part_000).  Both are modelled, statement by statement.   *)
(*                                                                         *)
(* A TypeScript string is modelled as a sequence of one-character strings, *)
(* an array of strings as a sequence of such sequences.  `===` on strings  *)
(* is equality of the sequences; Array.prototype.join is the operator join.*)
(***************************************************************************)
EXTENDS Integers, Sequences, FiniteSets, TLC

\* ------------------------------------------------------------------ bounds
\* Longest revision text drawn from Alphabet.
MaxLen == 2

\* Number of callers whose calls may be in progress at the same time.
NumCallers == 2

\* Number of calls made in one run of the interleaved callers.
MaxCalls == 3

\* Characters of the ordinary revision texts: a letter, the dot of the
\* separator, and a blank.
Alphabet == {"a", ".", " "}

\* --------------------------------------------------------------- constants
WORKING_TREE == <<"W", "O", "R", "K", "I", "N", "G", "_", "T", "R", "E", "E">>

\* Plausible slip: the second constant is a pasted copy of the first.
STAGED_ONLY_pasted == WORKING_TREE

STAGED_ONLY == <<"S", "T", "A", "G", "E", "D", "_", "O", "N", "L", "Y">>

\* The separator literal ".." handed to join.
DotDot == <<".", ".">>

\* The flag literal "--cached".
CachedFlag == <<"-", "-", "c", "a", "c", "h", "e", "d">>

Sentinels == {WORKING_TREE, STAGED_ONLY}

\* ----------------------------------------------------------------- inputs
BoundedSeq(S, n) == UNION {[1..k -> S] : k \in 0..n}

\* Texts that differ from a sentinel literal by at least one character: a
\* proper prefix, an extension, a lower-case spelling, and the literal with a
\* trailing or a leading blank.
NearSentinels ==
  { SubSeq(WORKING_TREE, 1, Len(WORKING_TREE) - 1),
    WORKING_TREE \o <<"a">>,
    <<"s", "t", "a", "g", "e", "d", "_", "o", "n", "l", "y">>,
    STAGED_ONLY \o <<" ">>,
    <<" ">> \o WORKING_TREE }

\* A revision text that holds the separator itself.
DottedTexts == { <<"a", ".", ".", "a">> }

\* The strings a caller may pass: every text over Alphabet up to MaxLen
\* (the empty string included), the two sentinel literals, the texts
\* that come close to them, and a text with the separator inside.
Strings ==
  BoundedSeq(Alphabet, MaxLen) \cup Sentinels \cup NearSentinels
    \cup DottedTexts

\* ------------------------------------------------- Array.prototype.join
\* Plausible slip: a terminator-style join that writes sep after every
\* element, the last one included.
RECURSIVE join_trailingSep(_, _)
join_trailingSep(arr, sep) ==
  IF Len(arr) = 0 THEN <<>>
  ELSE arr[1] \o sep \o join_trailingSep(Tail(arr), sep)

\* ECMAScript join: "" for the empty array, the element itself for a
\* one-element array, otherwise the elements with sep between neighbours.
RECURSIVE join(_, _)
join(arr, sep) ==
  IF Len(arr) = 0 THEN <<>>
  ELSE IF Len(arr) = 1 THEN arr[1]
  ELSE arr[1] \o sep \o join(Tail(arr), sep)

\* ------------------------------------------------- renderDiffRequest
\* Plausible slip: the three-dot (symmetric difference) separator.
renderDiffRequest_threeDot(from, to) ==
  LET start  == <<from>>
      end    == IF to = WORKING_TREE \/ to = STAGED_ONLY THEN <<>> ELSE <<to>>
      range  == join(start \o end, <<".", ".", ".">>)
      cached == IF to = STAGED_ONLY THEN <<CachedFlag>> ELSE <<>>
  IN  <<range>> \o cached

\* Plausible slip: the flag is appended for either sentinel.
renderDiffRequest_cachedOnAnySentinel(from, to) ==
  LET start  == <<from>>
      end    == IF to = WORKING_TREE \/ to = STAGED_ONLY THEN <<>> ELSE <<to>>
      range  == join(start \o end, DotDot)
      cached == IF to = WORKING_TREE \/ to = STAGED_ONLY
                THEN <<CachedFlag>> ELSE <<>>
  IN  <<range>> \o cached

\* Plausible slip: the two spreads are written in the wrong order.
renderDiffRequest_swapped(from, to) ==
  LET start  == <<from>>
      end    == IF to = WORKING_TREE \/ to = STAGED_ONLY THEN <<>> ELSE <<to>>
      range  == join(end \o start, DotDot)
      cached == IF to = STAGED_ONLY THEN <<CachedFlag>> ELSE <<>>
  IN  <<range>> \o cached

\* Plausible slip: the raw `to` is spread after the range as well.
renderDiffRequest_extraToken(from, to) ==
  LET start  == <<from>>
      end    == IF to = WORKING_TREE \/ to = STAGED_ONLY THEN <<>> ELSE <<to>>
      range  == join(start \o end, DotDot)
      cached == IF to = STAGED_ONLY THEN <<CachedFlag>> ELSE <<>>
  IN  <<range>> \o end \o cached

\* Plausible slip: a truthiness test on `to`, so "" is dropped like a sentinel.
renderDiffRequest_falsyEnd(from, to) ==
  LET start  == <<from>>
      end    == IF to = WORKING_TREE \/ to = STAGED_ONLY \/ to = <<>>
                THEN <<>> ELSE <<to>>
      range  == join(start \o end, DotDot)
      cached == IF to = STAGED_ONLY THEN <<CachedFlag>> ELSE <<>>
  IN  <<range>> \o cached

\* Plausible slip: `from` is tested against STAGED_ONLY too.
renderDiffRequest_fromInspected(from, to) ==
  LET start  == <<from>>
      end    == IF to = WORKING_TREE \/ to = STAGED_ONLY THEN <<>> ELSE <<to>>
      range  == join(start \o end, DotDot)
      cached == IF to = STAGED_ONLY \/ from = STAGED_ONLY
                THEN <<CachedFlag>> ELSE <<>>
  IN  <<range>> \o cached

\* Plausible slip: the flag is spread before the range instead of after it.
renderDiffRequest_cachedFirst(from, to) ==
  LET start  == <<from>>
      end    == IF to = WORKING_TREE \/ to = STAGED_ONLY THEN <<>> ELSE <<to>>
      range  == join(start \o end, DotDot)
      cached == IF to = STAGED_ONLY THEN <<CachedFlag>> ELSE <<>>
  IN  cached \o <<range>>

\* Plausible slip: the sentinels are recognised with startsWith on the
\* trimmed-left, upper-cased `to` instead of with ===.
renderDiffRequest_looseMatch(from, to) ==
  LET Upper(ch) == IF ch = "s" THEN "S" ELSE IF ch = "t" THEN "T"
                   ELSE IF ch = "a" THEN "A" ELSE IF ch = "g" THEN "G"
                   ELSE IF ch = "e" THEN "E" ELSE IF ch = "d" THEN "D"
                   ELSE IF ch = "o" THEN "O" ELSE IF ch = "n" THEN "N"
                   ELSE IF ch = "l" THEN "L" ELSE IF ch = "y" THEN "Y"
                   ELSE ch
      norm   == [i \in 1..Len(to) |-> Upper(to[i])]
      isWT   == norm = WORKING_TREE
      isSO   == norm = STAGED_ONLY
      start  == <<from>>
      end    == IF isWT \/ isSO THEN <<>> ELSE <<to>>
      range  == join(start \o end, DotDot)
      cached == IF isSO THEN <<CachedFlag>> ELSE <<>>
  IN  <<range>> \o cached

\* Plausible slip: the range string is spread like the arrays around it.
renderDiffRequest_spreadRange(from, to) ==
  LET start  == <<from>>
      end    == IF to = WORKING_TREE \/ to = STAGED_ONLY THEN <<>> ELSE <<to>>
      range  == join(start \o end, DotDot)
      cached == IF to = STAGED_ONLY THEN <<CachedFlag>> ELSE <<>>
  IN  [i \in 1..Len(range) |-> <<range[i]>>] \o cached

\* Plausible slip: STAGED_ONLY is left out of the test that drops the end.
renderDiffRequest_endKeepsStaged(from, to) ==
  LET start  == <<from>>
      end    == IF to = WORKING_TREE THEN <<>> ELSE <<to>>
      range  == join(start \o end, DotDot)
      cached == IF to = STAGED_ONLY THEN <<CachedFlag>> ELSE <<>>
  IN  <<range>> \o cached

\* Plausible slip: the end is never dropped, `to` is always spread.
renderDiffRequest_endAlways(from, to) ==
  LET start  == <<from>>
      end    == <<to>>
      range  == join(start \o end, DotDot)
      cached == IF to = STAGED_ONLY THEN <<CachedFlag>> ELSE <<>>
  IN  <<range>> \o cached

\* Plausible slip: for a sentinel the end is the empty string instead of
\* nothing, so that join writes the separator after `from`.
renderDiffRequest_emptyEnd(from, to) ==
  LET start  == <<from>>
      end    == IF to = WORKING_TREE \/ to = STAGED_ONLY
                THEN <<<<>>>> ELSE <<to>>
      range  == join(start \o end, DotDot)
      cached == IF to = STAGED_ONLY THEN <<CachedFlag>> ELSE <<>>
  IN  <<range>> \o cached

\* tests.ts copy.
renderDiffRequest(from, to) ==
  LET start  == <<from>>
      end    == IF to = WORKING_TREE \/ to = STAGED_ONLY THEN <<>> ELSE <<to>>
      range  == join(start \o end, DotDot)
      cached == IF to = STAGED_ONLY THEN <<CachedFlag>> ELSE <<>>
  IN  <<range>> \o cached

\* Plausible slip: this copy is edited to give what its own assertions
\* expect, an empty end for the sentinels, so that join writes the separator.
renderDiffRequest_suite_emptyEnd(from, to) ==
  LET start  == <<from>>
      end    == IF to = WORKING_TREE \/ to = STAGED_ONLY
                THEN <<<<>>>> ELSE <<to>>
      range  == join(start \o end, DotDot)
      cached == IF to = STAGED_ONLY THEN <<CachedFlag>> ELSE <<>>
  IN  <<range>> \o cached

\* Copy of the second test suite.
renderDiffRequest_suite(from, to) ==
  LET start  == <<from>>
      end    == IF to = WORKING_TREE \/ to = STAGED_ONLY THEN <<>> ELSE <<to>>
      range  == join(start \o end, DotDot)
      cached == IF to = STAGED_ONLY THEN <<CachedFlag>> ELSE <<>>
  IN  <<range>> \o cached

\* ------------------------------------------------------------------ state
VARIABLES from, to, result, pc, copy

\* frames[c] is the activation record of caller c's call in progress: the
\* two parameters, the four consts of the body, the returned array and the
\* position in the body.  history lists the calls that have returned.
VARIABLES frames, history

\* content is the argument handed to makeTextArea, element what it returned.
VARIABLES content, element

seqVars == <<from, to, result, pc, copy>>

callVars == <<frames, history>>

uiVars == <<content, element>>

vars == <<from, to, result, pc, copy, frames, history, content, element>>

Callers == 1..NumCallers

\* No call in progress.
IdleFrame ==
  [pc |-> "idle", from |-> <<>>, to |-> <<>>, start |-> <<>>, end |-> <<>>,
   range |-> <<>>, cached |-> <<>>, ret |-> <<>>]

\* No element rendered yet.
NoElement == [type |-> "none"]

\* The callers at rest and nothing returned yet.
CallsAtRest ==
  /\ frames = [c \in Callers |-> IdleFrame]
  /\ history = <<>>

\* No text area requested.
UiAtRest ==
  /\ content = <<>>
  /\ element = NoElement

\* The sequential test runner before its first test.
RunnerAtRest ==
  /\ from = <<>>
  /\ to = <<>>
  /\ result = <<>>
  /\ pc = "idle"
  /\ copy = "none"

TypeOK ==
  /\ from \in Strings
  /\ to \in Strings
  /\ pc \in {"idle", "returned"}
  /\ copy \in {"none", "tests", "suite"}
  /\ result \in Seq(Seq(STRING))

Init ==
  /\ from \in Strings
  /\ to \in Strings
  /\ result = <<>>
  /\ pc = "idle"
  /\ copy = "none"
  /\ CallsAtRest
  /\ UiAtRest

\* Plausible slip: the call validates its input and throws on an empty
\* revision, so it does not return.
CallTests_rejectsEmpty ==
  /\ pc = "idle"
  /\ from # <<>>
  /\ to # <<>>
  /\ result' = renderDiffRequest(from, to)
  /\ pc' = "returned"
  /\ copy' = "tests"
  /\ UNCHANGED <<from, to>>
  /\ UNCHANGED <<callVars, uiVars>>

\* A test body calls the tests.ts copy with the pending arguments.
CallTests ==
  /\ pc = "idle"
  /\ result' = renderDiffRequest(from, to)
  /\ pc' = "returned"
  /\ copy' = "tests"
  /\ UNCHANGED <<from, to>>
  /\ UNCHANGED <<callVars, uiVars>>

\* A test body calls the copy of the second suite.
CallSuite ==
  /\ pc = "idle"
  /\ result' = renderDiffRequest_suite(from, to)
  /\ pc' = "returned"
  /\ copy' = "suite"
  /\ UNCHANGED <<from, to>>
  /\ UNCHANGED <<callVars, uiVars>>

\* The runner moves on to the next test, which has its own arguments.
NextTest ==
  /\ pc = "returned"
  /\ \E f \in Strings, t \in Strings :
       /\ from' = f
       /\ to' = t
  /\ result' = <<>>
  /\ pc' = "idle"
  /\ copy' = "none"
  /\ UNCHANGED <<callVars, uiVars>>

Next == CallTests \/ CallSuite \/ NextTest

Spec == Init /\ [][Next]_vars

\* ------------------------------------------- interleaved calls, by statement
\* The arguments of the interleaved callers: an empty and a one-letter
\* `from`, and one `to` for each of the three cases.
FromTexts == {<<>>, <<"a">>}

ToTexts == {<<"a">>, WORKING_TREE, STAGED_ONLY}

\* Activation record of a call that has just been entered.
NewFrame(f, t) ==
  [pc |-> "start", from |-> f, to |-> t, start |-> <<>>, end |-> <<>>,
   range |-> <<>>, cached |-> <<>>, ret |-> <<>>]

\* Calls entered and not yet returned.
InFlight == {c \in Callers : frames[c].pc \notin {"idle", "done"}}

\* Plausible slip: STAGED_ONLY is left out of the test that drops the end.
EndOf_onlyWorkingTree(t) == IF t = WORKING_TREE THEN <<>> ELSE <<t>>

\* const end = (to === WORKING_TREE || to === STAGED_ONLY) ? [] : [to]
EndOf(t) == IF t = WORKING_TREE \/ t = STAGED_ONLY THEN <<>> ELSE <<t>>

\* Plausible slip: a module-level flag remembers that the previous call was
\* a staged one, and the flag is appended again.
CachedOf_sticky(t) ==
  IF t = STAGED_ONLY
     \/ (Len(history) > 0 /\ history[Len(history)].to = STAGED_ONLY)
  THEN <<CachedFlag>> ELSE <<>>

\* const cached = to === STAGED_ONLY ? ["--cached"] : []
CachedOf(t) == IF t = STAGED_ONLY THEN <<CachedFlag>> ELSE <<>>

\* Caller c enters renderDiffRequest(f, t).
Invoke(c) ==
  /\ frames[c].pc = "idle"
  /\ Len(history) + Cardinality(InFlight) < MaxCalls
  /\ \E f \in FromTexts, t \in ToTexts :
       frames' = [frames EXCEPT ![c] = NewFrame(f, t)]
  /\ UNCHANGED history
  /\ UNCHANGED <<seqVars, uiVars>>

\* const start = [from]
StepStart(c) ==
  /\ frames[c].pc = "start"
  /\ frames' = [frames EXCEPT ![c].start = <<frames[c].from>>,
                              ![c].pc = "end"]
  /\ UNCHANGED history
  /\ UNCHANGED <<seqVars, uiVars>>

\* Plausible slip: the parameter `to` is cleared once the end is taken.
StepEnd_clearsTo(c) ==
  /\ frames[c].pc = "end"
  /\ frames' = [frames EXCEPT ![c].end = EndOf(frames[c].to),
                              ![c].to = <<>>,
                              ![c].pc = "range"]
  /\ UNCHANGED history
  /\ UNCHANGED <<seqVars, uiVars>>

\* const end = ...
StepEnd(c) ==
  /\ frames[c].pc = "end"
  /\ frames' = [frames EXCEPT ![c].end = EndOf(frames[c].to),
                              ![c].pc = "range"]
  /\ UNCHANGED history
  /\ UNCHANGED <<seqVars, uiVars>>

\* const range = [...start, ...end].join("..")
StepRange(c) ==
  /\ frames[c].pc = "range"
  /\ frames' = [frames EXCEPT
                  ![c].range = join(frames[c].start \o frames[c].end, DotDot),
                  ![c].pc = "cached"]
  /\ UNCHANGED history
  /\ UNCHANGED <<seqVars, uiVars>>

\* Plausible slip: `cached` is one module-level binding that every call in
\* progress reads and writes.
StepCached_shared(c) ==
  /\ frames[c].pc = "cached"
  /\ frames' = [d \in Callers |->
                  IF d = c
                  THEN [frames[d] EXCEPT !.cached = CachedOf(frames[c].to),
                                         !.pc = "return"]
                  ELSE [frames[d] EXCEPT !.cached = CachedOf(frames[c].to)]]
  /\ UNCHANGED history
  /\ UNCHANGED <<seqVars, uiVars>>

\* const cached = ...
StepCached(c) ==
  /\ frames[c].pc = "cached"
  /\ frames' = [frames EXCEPT ![c].cached = CachedOf(frames[c].to),
                              ![c].pc = "return"]
  /\ UNCHANGED history
  /\ UNCHANGED <<seqVars, uiVars>>

\* return [range, ...cached]
StepReturn(c) ==
  /\ frames[c].pc = "return"
  /\ LET ret == <<frames[c].range>> \o frames[c].cached
     IN  /\ frames' = [frames EXCEPT ![c].ret = ret, ![c].pc = "done"]
         /\ history' = Append(history,
                              [from |-> frames[c].from,
                               to |-> frames[c].to, ret |-> ret])
  /\ UNCHANGED <<seqVars, uiVars>>

\* The caller has taken the returned array; the activation record is gone.
Finish(c) ==
  /\ frames[c].pc = "done"
  /\ frames' = [frames EXCEPT ![c] = IdleFrame]
  /\ UNCHANGED history
  /\ UNCHANGED <<seqVars, uiVars>>

InitCalls ==
  /\ RunnerAtRest
  /\ CallsAtRest
  /\ UiAtRest

NextCalls ==
  \E c \in Callers :
    \/ Invoke(c)
    \/ StepStart(c)
    \/ StepEnd(c)
    \/ StepRange(c)
    \/ StepCached(c)
    \/ StepReturn(c)
    \/ Finish(c)

SpecCalls == InitCalls /\ [][NextCalls]_vars

TypeOKCalls ==
  /\ history \in Seq([from : FromTexts, to : ToTexts,
                      ret : Seq(Seq(STRING))])
  /\ Len(history) <= MaxCalls
  /\ \A c \in Callers :
       frames[c].pc \in {"idle", "start", "end", "range", "cached",
                         "return", "done"}

\* ------------------------------------------------------------- makeTextArea
\* Longest content handed to makeTextArea.
MaxContentLen == 4

Contents == BoundedSeq(Alphabet, MaxContentLen)

\* rows={8}
Rows == 8

\* style={{ width: '100%', padding: '8px' }}
TextAreaStyle == [width |-> "100%", padding |-> "8px"]

\* Plausible slip: the text area is sized to its content.
makeTextArea_rowsFromContent(c) ==
  [type |-> "textarea",
   props |-> [defaultValue |-> c, rows |-> Len(c), style |-> TextAreaStyle]]

\* The React element of <textarea defaultValue={content} rows={8} style=... />
makeTextArea(c) ==
  [type |-> "textarea",
   props |-> [defaultValue |-> c, rows |-> Rows, style |-> TextAreaStyle]]

InitTextArea ==
  /\ RunnerAtRest
  /\ CallsAtRest
  /\ content \in Contents
  /\ element = NoElement

\* A caller renders the text area for the pending content.
MakeTextArea ==
  /\ element = NoElement
  /\ element' = makeTextArea(content)
  /\ UNCHANGED content
  /\ UNCHANGED <<seqVars, callVars>>

\* The caller goes on to another content.
NextContent ==
  /\ element # NoElement
  /\ \E c \in Contents : content' = c
  /\ element' = NoElement
  /\ UNCHANGED <<seqVars, callVars>>

NextTextArea == MakeTextArea \/ NextContent

SpecTextArea == InitTextArea /\ [][NextTextArea]_vars

\* ---------------------------------------------------------------- helpers
IsPrefix(p, s) == Len(p) <= Len(s) /\ SubSeq(s, 1, Len(p)) = p

Returned == pc = "returned"

\* s holds no "." character.
DotFree(s) == \A i \in 1..Len(s) : s[i] # "."

\* The argument pairs without a dot: a dot-free `from`, and a `to` that is a
\* sentinel or dot-free.
DotFreePairs ==
  { p \in Strings \X Strings :
      DotFree(p[1]) /\ (p[2] \in Sentinels \/ DotFree(p[2])) }

\* sub occurs in s as a run of consecutive characters.
Contains(s, sub) ==
  \E i \in 0..(Len(s) - Len(sub)) : SubSeq(s, i + 1, i + Len(sub)) = sub

\* ----------------------------------------------------------------- claims

\* C1: for every `from` and every non-sentinel `to`, the call returns exactly
\* the one-element list [from + ".." + to], whatever characters (dots,
\* blanks) the two texts contain.
C1_RegularRange ==
  (Returned /\ to \notin Sentinels) => result = <<from \o DotDot \o to>>

\* The case of C1 with a `from` that is itself ".." and a `to` with a blank.
C1_Witness ==
  /\ Returned
  /\ from = <<".", ".">>
  /\ to = <<" ", "a">>
  /\ result = <<<<".", ".", ".", ".", " ", "a">>>>

\* C2: for every `from`, the call with to = WORKING_TREE returns exactly the
\* one-element list [from + ".."], with no flag.
C2_WorkingTreeKeepsSeparator ==
  (Returned /\ to = WORKING_TREE) => result = <<from \o DotDot>>

\* C3: for every `from`, the empty one included, the call with
\* to = STAGED_ONLY returns exactly [from + "..", "--cached"].
C3_StagedKeepsSeparator ==
  (Returned /\ to = STAGED_ONLY) => result = <<from \o DotDot, CachedFlag>>

C6_LengthOneOrTwo ==
  Returned =>
    /\ Len(result) \in {1, 2}
    /\ (Len(result) = 2 <=> to = STAGED_ONLY)

\* A call that returned two elements, and so had to = STAGED_ONLY.
C6_Witness ==
  /\ Returned
  /\ Len(result) = 2
  /\ to = STAGED_ONLY
  /\ from = WORKING_TREE

\* C7: the first returned element always has the unmodified `from` as a
\* prefix, for sentinel and empty arguments too.
C7_FirstStartsWithFrom ==
  Returned => (Len(result) >= 1 /\ IsPrefix(from, result[1]))

\* A call whose first element is strictly longer than its non-empty `from`.
C7_Witness ==
  /\ Returned
  /\ from = <<" ", "a">>
  /\ to = <<"a">>
  /\ Len(result[1]) > Len(from)
  /\ IsPrefix(from, result[1])

\* C8: a second element, when there is one, is the literal "--cached" and
\* the last one; nothing follows the range when `to` is WORKING_TREE or an
\* ordinary revision.
C8_OnlyCachedAppended ==
  Returned =>
    /\ (Len(result) >= 2 => (Len(result) = 2 /\ result[2] = CachedFlag))
    /\ (to # STAGED_ONLY => Len(result) = 1)

\* A call that appended the flag.
C8_Witness ==
  /\ Returned
  /\ to = STAGED_ONLY
  /\ from = <<"a">>
  /\ Len(result) = 2
  /\ result[2] = CachedFlag

\* C9: empty strings are ordinary text: ("", to) gives [".." + to] for a
\* non-sentinel to, (from, "") gives [from + ".."], ("", "") gives [".."].
C9_EmptyIsLiteral ==
  Returned =>
    /\ ((from = <<>> /\ to \notin Sentinels) => result = <<DotDot \o to>>)
    /\ (to = <<>> => result = <<from \o DotDot>>)
    /\ ((from = <<>> /\ to = <<>>) => result = <<DotDot>>)

\* The call with two empty strings.
C9_Witness ==
  /\ Returned
  /\ from = <<>>
  /\ to = <<>>
  /\ result = <<DotDot>>

\* C10: a `from` that is a sentinel literal is emitted verbatim; which of the
\* three cases applies, and whether "--cached" is appended, follows `to`.
C10_FromNeverInspected ==
  (Returned /\ from \in Sentinels) =>
    /\ IsPrefix(from, result[1])
    /\ (to \notin Sentinels => result[1] = from \o DotDot \o to)
    /\ (to \in Sentinels => result[1] = from)
    /\ (Len(result) = 2 <=> to = STAGED_ONLY)
    /\ (Len(result) = 2 => result[2] = CachedFlag)
    /\ Len(result) \in {1, 2}

\* `from` is STAGED_ONLY, `to` is an ordinary revision: no flag.
C10_Witness ==
  /\ Returned
  /\ from = STAGED_ONLY
  /\ to = <<"a">>
  /\ result = <<STAGED_ONLY \o DotDot \o <<"a">>>>

\* C11: sentinel detection is exact equality on `to`: a `to` that is a proper
\* prefix, an extension, a lower-case spelling or a blank-padded form of a
\* sentinel is an ordinary revision and yields [from + ".." + to], no flag.
C11_NearSentinelIsOrdinary ==
  (Returned /\ to \in NearSentinels) =>
    /\ Len(result) = 1
    /\ result[1] = from \o DotDot \o to

\* The call with the lower-case spelling of STAGED_ONLY as `to`.
C11_Witness ==
  /\ Returned
  /\ from = <<"a">>
  /\ to = <<"s", "t", "a", "g", "e", "d", "_", "o", "n", "l", "y">>
  /\ Len(result) = 1

\* C12: the staged result is the working-tree result with the flag appended:
\* for two returned calls with the same `from`, one to STAGED_ONLY and one to
\* WORKING_TREE, the first element of the former is the only element of the
\* latter, and the former is the latter followed by "--cached".
C12_StagedIsWorkingTreePlusFlag ==
  \A i, j \in DOMAIN history :
    (/\ history[i].from = history[j].from
     /\ history[i].to = STAGED_ONLY
     /\ history[j].to = WORKING_TREE)
    => /\ Len(history[j].ret) = 1
       /\ history[i].ret[1] = history[j].ret[1]
       /\ history[i].ret = history[j].ret \o <<CachedFlag>>

\* A staged and a working-tree call with from = "a" have both returned.
C12_Witness ==
  \E i, j \in DOMAIN history :
    /\ history[i].from = <<"a">>
    /\ history[j].from = <<"a">>
    /\ history[i].to = STAGED_ONLY
    /\ history[j].to = WORKING_TREE
    /\ Len(history[i].ret) = 2

\* C13: the function has no memory: whatever calls came before, two returned
\* calls with identical (from, to) returned equal lists.
C13_SameArgumentsSameResult ==
  \A i, j \in DOMAIN history :
    (history[i].from = history[j].from /\ history[i].to = history[j].to)
    => history[i].ret = history[j].ret

\* Three calls returned; the first and the third had the same arguments and
\* a staged call came between them.
C13_Witness ==
  /\ Len(history) = 3
  /\ history[1].from = history[3].from
  /\ history[1].to = <<"a">>
  /\ history[3].to = <<"a">>
  /\ history[2].to = STAGED_ONLY
  /\ history[1].ret = history[3].ret

\* C14: the call is total: from every pair of strings (empty, sentinel or
\* other) either copy can be called and returns a list; there is no error
\* state.
C14_TotalOverStrings ==
  /\ pc \in {"idle", "returned"}
  /\ (pc = "idle" => (ENABLED CallTests /\ ENABLED CallSuite))
  /\ (Returned => DOMAIN result = 1..Len(result))

\* The call with an empty `from` and a sentinel `to` has returned.
C14_Witness ==
  /\ Returned
  /\ from = <<>>
  /\ to = WORKING_TREE
  /\ result = <<<<>>>>

\* C15: the returned list is never empty and its first element is a
\* defined string.
C15_NonEmptyFirstIsString ==
  Returned => (Len(result) > 0 /\ result[1] \in Seq(STRING))

\* The call whose first element is the empty string has returned.
C15_Witness ==
  /\ Returned
  /\ from = <<>>
  /\ to = STAGED_ONLY
  /\ Len(result) = 2
  /\ result[1] = <<>>

\* C16: with the statements of several calls interleaved, each call returns
\* the list a solitary call with its arguments returns, and what it holds
\* before returning is what the solitary call holds at that point.
C16_InterleavedEqualsSolitary ==
  \A c \in Callers :
    LET fr == frames[c]
        solitary == renderDiffRequest(fr.from, fr.to)
    IN  /\ (fr.pc = "done" => fr.ret = solitary)
        /\ (fr.pc = "return" => <<fr.range>> \o fr.cached = solitary)
        /\ (fr.pc \in {"end", "range", "cached", "return", "done"}
              => fr.start = <<fr.from>>)

\* Caller 1 has returned from a staged call while caller 2 is inside a
\* working-tree call, about to return.
C16_Witness ==
  /\ frames[1].pc = "done"
  /\ frames[1].to = STAGED_ONLY
  /\ frames[1].ret = <<<<"a">>, CachedFlag>>
  /\ frames[2].pc = "return"
  /\ frames[2].to = WORKING_TREE

\* C17: a call has no side effects: while it runs its two arguments keep
\* their values, no other caller's activation record changes, the only
\* thing added to the world is the returned list, and the state outside
\* the calls is untouched.  (The sentinel constants are const bindings of
\* immutable strings: definitions, which no step can change.)
C17_NoSideEffects ==
  [][ /\ \A c \in Callers :
           frames[c].pc \notin {"idle", "done"}
           => /\ frames'[c].from = frames[c].from
              /\ frames'[c].to = frames[c].to
      /\ \A c, d \in Callers :
           (c # d /\ frames'[c] # frames[c]) => frames'[d] = frames[d]
      /\ (history' # history
            => \E c \in Callers :
                 /\ frames[c].pc = "return"
                 /\ frames'[c].pc = "done"
                 /\ history' = Append(history,
                                      [from |-> frames[c].from,
                                       to |-> frames[c].to,
                                       ret |-> frames'[c].ret]))
      /\ UNCHANGED <<seqVars, uiVars>>
    ]_vars

\* A call has returned and its arguments are the ones it was entered with.
C17_Witness ==
  \E c \in Callers :
    /\ frames[c].pc = "done"
    /\ frames[c].from = <<"a">>
    /\ frames[c].to = STAGED_ONLY
    /\ history[Len(history)].to = STAGED_ONLY
    /\ history[Len(history)].from = <<"a">>

\* C18: the two sentinel constants are distinct, so every `to` falls in
\* exactly one of the three cases, and the "--cached" branch is taken only
\* when the end of the range was omitted.
C18_CasesExclusive ==
  /\ WORKING_TREE # STAGED_ONLY
  /\ \A c \in Callers :
       LET fr == frames[c]
           cases == << fr.to = WORKING_TREE,
                       fr.to = STAGED_ONLY,
                       fr.to # WORKING_TREE /\ fr.to # STAGED_ONLY >>
       IN  fr.pc \in {"return", "done"}
           => /\ Cardinality({k \in 1..3 : cases[k]}) = 1
              /\ (fr.cached # <<>> => fr.end = <<>>)
              /\ (fr.end = <<>> <=> (cases[1] \/ cases[2]))
              /\ (fr.cached # <<>> <=> cases[2])

\* A call that took the "--cached" branch, with its end omitted.
C18_Witness ==
  \E c \in Callers :
    /\ frames[c].pc = "return"
    /\ frames[c].to = STAGED_ONLY
    /\ frames[c].cached = <<CachedFlag>>
    /\ frames[c].end = <<>>

\* C19: a revision whose name is literally the text WORKING_TREE or
\* STAGED_ONLY cannot be addressed: the call takes the sentinel case and
\* does not return [from + ".." + to].
C19_SentinelTextNotAddressable ==
  (/\ Returned
   /\ to \in { <<"W", "O", "R", "K", "I", "N", "G", "_", "T", "R", "E", "E">>,
               <<"S", "T", "A", "G", "E", "D", "_", "O", "N", "L", "Y">> })
  => /\ result # <<from \o DotDot \o to>>
     /\ result[1] = from

\* The call for a revision literally named STAGED_ONLY.
C19_Witness ==
  /\ Returned
  /\ from = <<"a">>
  /\ to = <<"S", "T", "A", "G", "E", "D", "_", "O", "N", "L", "Y">>
  /\ result[1] = <<"a">>

\* C20: makeTextArea(content) returns one textarea element whose defaultValue
\* is exactly content, with rows 8 and the same width/padding style for
\* every content.
C20_TextAreaOfContent ==
  element # NoElement
  => /\ element.type = "textarea"
     /\ element.props.defaultValue = content
     /\ element.props.rows = 8
     /\ element.props.style = [width |-> "100%", padding |-> "8px"]

\* The text area rendered for a content of dots and blanks.
C20_Witness ==
  /\ element # NoElement
  /\ content = <<".", " ", "a">>
  /\ element.props.defaultValue = <<".", " ", "a">>

\* C21: the two copies of renderDiffRequest are equivalent: what a call of
\* one copy returned is what the other copy returns for the same (from, to).
C21_CopiesEquivalent ==
  /\ ((Returned /\ copy = "tests")
        => result = renderDiffRequest_suite(from, to))
  /\ ((Returned /\ copy = "suite")
        => result = renderDiffRequest(from, to))

\* The copy of the second suite has returned from a staged call.
C21_Witness ==
  /\ Returned
  /\ copy = "suite"
  /\ from = <<"a", " ">>
  /\ to = STAGED_ONLY
  /\ result = <<<<"a", " ">>, CachedFlag>>

\* C22: when `to` is a sentinel its text is not emitted: no returned element
\* contains "WORKING_TREE" or "STAGED_ONLY" unless `from` contains it already;
\* the output is made of `from` and the flag only.
C22_SentinelTextNotEmitted ==
  (Returned /\ to \in Sentinels) =>
    /\ \A k \in DOMAIN result :
         \A lit \in Sentinels :
           Contains(result[k], lit) => Contains(from, lit)
    /\ \A k \in DOMAIN result : result[k] \in {from, CachedFlag}

\* A staged call with an ordinary `from`: neither element holds a sentinel.
C22_Witness ==
  /\ Returned
  /\ to = STAGED_ONLY
  /\ from = <<".", "a">>
  /\ Len(result) = 2
  /\ ~ Contains(result[1], STAGED_ONLY)
  /\ ~ Contains(result[2], STAGED_ONLY)

====
